---- MODULE Spec2Model ----
(***************************************************************************)
(* Model of the POC provider of virtual-kubelet (package poc): the pod     *)
(* translation (TranslateToRemotePod) and the pod lifecycle methods of     *)
(* PocProvider, run by concurrent callers against one remote cluster.      *)
(*                                                                         *)
(* The remote cluster is reached through the client-go handle rc.  Its     *)
(* calls (Get, Create, Update, Delete, List) are the Remote* operators;    *)
(* every call may also fail for a reason that has nothing to do with the   *)
(* pod (the API is unreachable, the request is rejected), which is the     *)
(* input `fail` of each step.                                              *)
(***************************************************************************)
EXTENDS Naturals, Sequences, FiniteSets

(* ------------------------------ bounds -------------------------------- *)

\* Number of pods the remote cluster holds at a time.
MaxRemotePods == 2

\* The concurrent callers of the provider (the host's pod workers).
Procs == {"w1", "w2"}

(* ----------------------------- constants ------------------------------ *)

REMOTE_POD_ANNOTATION_NAME == "virtual-kube-type"

REMOTE_POD_ANNOTATION_VALUE == "poc"

\* An annotation map is a set of <<key, value>> pairs with distinct keys.
Marker == <<REMOTE_POD_ANNOTATION_NAME, REMOTE_POD_ANNOTATION_VALUE>>

(* ------------------------------ errors -------------------------------- *)

\* Go's nil error.
Nil == "nil"

\* errdefs.NotFoundf(...): the NotFound kind of the virtual-kubelet errdefs.
ErrdefsNotFound == "errdefs.NotFound"

\* Errors of the remote API (client-go), passed through as they are.
RemoteNotFound == "remote.NotFound"

RemoteAlreadyExists == "remote.AlreadyExists"

RemoteConflict == "remote.Conflict"

\* Any failure that is not about the pod: unreachable API, rejected request.
RemoteFailure == "remote.Failure"

(* ------------------------------- pods --------------------------------- *)

\* corev1.Container, with the eight fields the translation copies and two
\* of the fields it does not (VolumeMounts, SecurityContext).
Container(name, image, command, args, resources, ports, env, wd, mounts, sc) ==
    [Name |-> name, Image |-> image, Command |-> command, Args |-> args,
     Resources |-> resources, Ports |-> ports, Env |-> env, WorkingDir |-> wd,
     VolumeMounts |-> mounts, SecurityContext |-> sc]

\* The zero value of corev1.Container.
EmptyContainer == Container("", "", <<>>, <<>>, "", <<>>, <<>>, "", <<>>, "")

\* The zero value of corev1.Pod: what client-go's Get leaves in its result
\* when the request fails (result = &v1.Pod{}).
EmptyPod ==
    [Namespace |-> "", Name |-> "", Annotations |-> {}, Volumes |-> <<>>,
     Containers |-> <<>>, RestartPolicy |-> "", ResourceVersion |-> 0, Phase |-> ""]

Namespaces == {"default", "prod"}

Names == {"web", "db"}

FullContainer ==
    Container("c", "nginx", <<"run">>, <<"-v">>, "cpu=1", <<80>>,
              <<"K=V">>, "/srv", <<"data:/mnt">>, "privileged")

PlainContainer == [EmptyContainer EXCEPT !.Name = "side", !.Image = "busybox"]

\* A host pod with two containers, a volume and annotations of the host.
RichHostPod(ns, name) ==
    [Namespace |-> ns, Name |-> name, Annotations |-> {<<"owner", "host">>},
     Volumes |-> <<"data">>, Containers |-> <<FullContainer, PlainContainer>>,
     RestartPolicy |-> "Always", ResourceVersion |-> 0, Phase |-> "Pending"]

\* A host pod with one container and nothing else.
PlainHostPod(ns, name) ==
    [Namespace |-> ns, Name |-> name, Annotations |-> {},
     Volumes |-> <<>>, Containers |-> <<PlainContainer>>,
     RestartPolicy |-> "Never", ResourceVersion |-> 0, Phase |-> "Pending"]

\* The host pods the callers pass: two identities, one of them in two
\* variants.
HostPods ==
    {RichHostPod("default", "web"), PlainHostPod("default", "web"),
     PlainHostPod("prod", "web")}

\* The identities at which other clients of the remote cluster create pods.
ForeignIdentities == {<<"default", "web">>, <<"prod", "db">>}

(* ------------------------- the remote cluster ------------------------- *)

\* The indices of the stored pods with the identity (ns, name).
Matching(store, ns, name) ==
    { i \in 1..Len(store) : store[i].Namespace = ns /\ store[i].Name = name }

\* The stored pods with that identity, as a sequence: <<>> when none exists.
Existing(store, ns, name) ==
    SelectSeq(store, LAMBDA r : r.Namespace = ns /\ r.Name = name)

\* rc.CoreV1().Pods(ns).Get(name): the pod and a nil error, or the zero pod
\* and an error.
RemoteGet(store, ns, name, fail) ==
    IF fail THEN [pod |-> EmptyPod, err |-> RemoteFailure]
    ELSE IF Matching(store, ns, name) = {}
    THEN [pod |-> EmptyPod, err |-> RemoteNotFound]
    ELSE [pod |-> store[CHOOSE i \in Matching(store, ns, name) : TRUE], err |-> Nil]

\* rc.CoreV1().Pods(ns).Create(pd): rejects an object of another namespace,
\* one that carries a resource version (it was read from the cluster) and one
\* whose identity is taken; else stores it, with a resource version and the
\* phase Pending.
RemoteCreate(store, ns, pd, fail) ==
    IF fail \/ pd.Namespace # ns \/ pd.ResourceVersion # 0
    THEN [store |-> store, err |-> RemoteFailure]
    ELSE IF Matching(store, ns, pd.Name) # {}
    THEN [store |-> store, err |-> RemoteAlreadyExists]
    ELSE [store |-> Append(store, [pd EXCEPT !.ResourceVersion = 1,
                                             !.Phase = "Pending"]),
          err |-> Nil]

\* rc.CoreV1().Pods(ns).Update(pd): replaces the stored pod of pd's identity,
\* keeping its resource version and status; never creates one.  An object
\* that carries a resource version must be the stored one (every write gives
\* a new version, so an object read earlier and written over since is
\* refused); an object without one is written unconditionally.
RemoteUpdate(store, ns, pd, fail) ==
    IF Matching(store, ns, pd.Name) = {} \/ pd.Namespace # ns
    THEN [store |-> store, err |-> RemoteNotFound]
    ELSE IF fail
    THEN [store |-> store, err |-> RemoteFailure]
    ELSE IF pd.ResourceVersion # 0
            /\ \E i \in Matching(store, ns, pd.Name) : store[i] # pd
    THEN [store |-> store, err |-> RemoteConflict]
    ELSE [store |-> [i \in 1..Len(store) |->
                       IF i \in Matching(store, ns, pd.Name)
                       THEN [pd EXCEPT !.ResourceVersion = store[i].ResourceVersion,
                                       !.Phase = store[i].Phase]
                       ELSE store[i]],
          err |-> Nil]

\* rc.CoreV1().Pods(ns).Delete(name).
RemoteDelete(store, ns, name, fail) ==
    IF fail THEN [store |-> store, err |-> RemoteFailure]
    ELSE IF Matching(store, ns, name) = {}
    THEN [store |-> store, err |-> RemoteNotFound]
    ELSE [store |-> SelectSeq(store,
                        LAMBDA r : ~(r.Namespace = ns /\ r.Name = name)),
          err |-> Nil]

\* rc.CoreV1().Pods("").List(selector): the pods of all namespaces that the
\* selector <<key, value>> selects, in the order of the store.
RemoteList(store, selector, fail) ==
    IF fail THEN [items |-> <<>>, err |-> RemoteFailure]
    ELSE [items |-> SelectSeq(store, LAMBDA r : selector \in r.Annotations),
          err |-> Nil]

(* --------------------------- PodTranslator ---------------------------- *)

\* TranslateContainer as a copy of the whole container.
TranslateContainerWhole(c) == c

\* The container literal of TranslateToRemotePod: eight fields of c, every
\* other field left at its zero value.
TranslateContainer(c) ==
    Container(c.Name, c.Image, c.Command, c.Args, c.Resources, c.Ports, c.Env,
              c.WorkingDir, EmptyContainer.VolumeMounts,
              EmptyContainer.SecurityContext)

\* NewRemotePod without the annotations.
NewRemotePodUnmarked(pod) ==
    [Namespace |-> pod.Namespace, Name |-> pod.Name, Annotations |-> {},
     Volumes |-> <<>>,
     Containers |-> [i \in 1..Len(pod.Containers) |->
                        TranslateContainer(pod.Containers[i])],
     RestartPolicy |-> pod.RestartPolicy, ResourceVersion |-> 0, Phase |-> ""]

\* The pod literal of TranslateToRemotePod.
NewRemotePod(pod) ==
    [Namespace |-> pod.Namespace, Name |-> pod.Name, Annotations |-> {Marker},
     Volumes |-> <<>>,
     Containers |-> [i \in 1..Len(pod.Containers) |-> TranslateContainer(pod.Containers[i])],
     RestartPolicy |-> pod.RestartPolicy, ResourceVersion |-> 0, Phase |-> ""]

\* TranslateToRemotePod(pod): `rpod, _ = Get(...)` drops the error of the
\* lookup; the pod is built when the looked-up pod has an empty name, and the
\* returned error is always nil.
TranslateToRemotePod(pod, store, fail) ==
    LET rpod == RemoteGet(store, pod.Namespace, pod.Name, fail).pod
    IN  IF rpod.Name = ""
        THEN [rpod |-> NewRemotePod(pod), err |-> Nil]
        ELSE [rpod |-> rpod, err |-> Nil]

(* -------------------------- LifecycleAdapter -------------------------- *)

\* CreatePod: `return err` after the remote create.
CreatePodReturn(createErr) == createErr

\* UpdatePodReturn returning the error of the remote update.
UpdatePodReturnsError(updateErr) == updateErr

\* UpdatePod: `_, err = ...Update(pd)` followed by `return nil`.
UpdatePodReturn(updateErr) == Nil

\* GetPodResult passing the lookup's error and pod through.
GetPodResultRaw(got) == [pod |-> <<got.pod>>, err |-> got.err]

\* GetPod, after the remote Get returned `got`: any error becomes
\* errdefs.NotFound with a nil pod (<<>>), else the pod (<<pod>>).
GetPodResult(got) ==
    IF got.err # Nil
    THEN [pod |-> <<>>, err |-> ErrdefsNotFound]
    ELSE [pod |-> <<got.pod>>, err |-> Nil]

\* GetPodStatus, after the remote Get returned `got`: any error becomes the
\* phase Unknown and a nil error, else the pod's status.
GetPodStatusResult(got) ==
    IF got.err # Nil
    THEN [status |-> <<[Phase |-> "Unknown"]>>, err |-> Nil]
    ELSE [status |-> <<[Phase |-> got.pod.Phase]>>, err |-> Nil]

\* GetPodsSelector on another annotation.
GetPodsSelectorOther == <<"owner", "ops">>

\* The selector GetPods lists with.
GetPodsSelector == <<REMOTE_POD_ANNOTATION_NAME, REMOTE_POD_ANNOTATION_VALUE>>

\* GetPods, after the remote List returned `list`.  The result is a slice of
\* pointers: ptrs[i] is the address the i-th element holds and heap[a] the
\* pod stored at address a.  `result = append(result, &pod)` takes the
\* address of the range variable: one variable for the whole loop, left
\* holding the last item, under the Go language versions before 1.22; a
\* fresh variable per iteration from 1.22 on (perIteration).
GetPodsResult(list, perIteration) ==
    IF list.err # Nil
    THEN [ptrs |-> <<>>, heap |-> <<>>, err |-> list.err]
    ELSE IF perIteration
    THEN [ptrs |-> [i \in 1..Len(list.items) |-> i], heap |-> list.items,
          err |-> Nil]
    ELSE [ptrs |-> [i \in 1..Len(list.items) |-> 1],
          heap |-> IF list.items = <<>> THEN <<>>
                   ELSE <<list.items[Len(list.items)]>>,
          err |-> Nil]

(* ------------------------------- state -------------------------------- *)

VARIABLES
    remote,    \* the remote cluster's pods, in the order its List gives them
    origin,    \* history, parallel to remote: the identity <<ns, name>> of
               \* the host pod an adapter-created pod was created from, <<>>
               \* for a pod another client created
    pc,        \* per caller: "idle", or the call it is inside of
    arg,       \* per caller: the host pod of the call it is inside of
    pd,        \* per caller: the translated pod of that call
    last       \* what the last finished step returned, and to which caller

vars == <<remote, origin, pc, arg, pd, last>>

Init ==
    /\ remote = <<>>
    /\ origin = <<>>
    /\ pc = [p \in Procs |-> "idle"]
    /\ arg = [p \in Procs |-> EmptyPod]
    /\ pd = [p \in Procs |-> EmptyPod]
    /\ last = [op |-> "none"]

\* What the translation step of CreatePod or UpdatePod returned, with the
\* state of the lookup it made: `existing` holds the remote pod of the host
\* pod's identity at that moment, lookupErr the error of the lookup.
TranslateRecord(p, caller, pod, fail) ==
    LET t == TranslateToRemotePod(pod, remote, fail)
    IN  [op |-> "Translate", proc |-> p, caller |-> caller, pod |-> pod,
         existing |-> Existing(remote, pod.Namespace, pod.Name),
         lookupErr |-> RemoteGet(remote, pod.Namespace, pod.Name, fail).err,
         rpod |-> t.rpod, err |-> t.err]

\* The first half of CreatePod and UpdatePod: translate, and return the
\* translation's error if there is one.
Translate(p, caller, pod, fail) ==
    LET t == TranslateToRemotePod(pod, remote, fail)
    IN  /\ IF t.err # Nil
           THEN /\ last' = [op |-> caller, ns |-> pod.Namespace,
                            name |-> pod.Name,
                            issued |-> FALSE, remoteErr |-> Nil,
                            existed |-> FALSE, existsAfter |-> FALSE,
                            err |-> t.err]
                /\ UNCHANGED <<pc, arg, pd>>
           ELSE /\ pc' = [pc EXCEPT ![p] = caller]
                /\ arg' = [arg EXCEPT ![p] = pod]
                /\ pd' = [pd EXCEPT ![p] = t.rpod]
                /\ last' = TranslateRecord(p, caller, pod, fail)
        /\ UNCHANGED <<remote, origin>>

CreatePodTranslate(p) ==
    \E pod \in HostPods, fail \in BOOLEAN :
        /\ pc[p] = "idle"
        /\ Translate(p, "CreatePod", pod, fail)

\* The second half of CreatePod: the remote create, whose error is returned.
CreatePodCreate(p) ==
    \E fail \in BOOLEAN :
        LET c == RemoteCreate(remote, arg[p].Namespace, pd[p], fail)
        IN  /\ pc[p] = "CreatePod"
            /\ c.err = Nil => Len(remote) < MaxRemotePods
            /\ remote' = c.store
            /\ origin' = IF c.err = Nil
                         THEN Append(origin, <<arg[p].Namespace, arg[p].Name>>)
                         ELSE origin
            /\ last' = [op |-> "CreatePod", ns |-> arg[p].Namespace,
                        name |-> arg[p].Name,
                        issued |-> TRUE, remoteErr |-> c.err,
                        existed |-> Matching(remote, arg[p].Namespace,
                                             arg[p].Name) # {},
                        err |-> CreatePodReturn(c.err)]
            /\ pc' = [pc EXCEPT ![p] = "idle"]
            /\ arg' = [arg EXCEPT ![p] = EmptyPod]
            /\ pd' = [pd EXCEPT ![p] = EmptyPod]

UpdatePodTranslate(p) ==
    \E pod \in HostPods, fail \in BOOLEAN :
        /\ pc[p] = "idle"
        /\ Translate(p, "UpdatePod", pod, fail)

\* The second half of UpdatePod: the remote update, whose error is dropped.
UpdatePodUpdate(p) ==
    \E fail \in BOOLEAN :
        LET u == RemoteUpdate(remote, arg[p].Namespace, pd[p], fail)
        IN  /\ pc[p] = "UpdatePod"
            /\ remote' = u.store
            /\ last' = [op |-> "UpdatePod", ns |-> arg[p].Namespace,
                        name |-> arg[p].Name,
                        issued |-> TRUE, remoteErr |-> u.err,
                        existed |-> Matching(remote, arg[p].Namespace,
                                             arg[p].Name) # {},
                        existsAfter |-> Matching(u.store, arg[p].Namespace,
                                                 arg[p].Name) # {},
                        err |-> UpdatePodReturn(u.err)]
            /\ pc' = [pc EXCEPT ![p] = "idle"]
            /\ arg' = [arg EXCEPT ![p] = EmptyPod]
            /\ pd' = [pd EXCEPT ![p] = EmptyPod]
            /\ UNCHANGED origin

\* s without the elements at the indices of `gone`.
Without(s, gone) ==
    LET keep[i \in 0..Len(s)] ==
            IF i = 0 THEN <<>>
            ELSE IF i \in gone THEN keep[i - 1]
            ELSE Append(keep[i - 1], s[i])
    IN  keep[Len(s)]

\* DeletePod: the remote delete, whose error is returned.
DeletePod ==
    \E pod \in HostPods, fail \in BOOLEAN :
        LET d == RemoteDelete(remote, pod.Namespace, pod.Name, fail)
        IN  /\ \E p \in Procs : pc[p] = "idle"
            /\ remote' = d.store
            /\ origin' = IF d.err = Nil
                         THEN Without(origin,
                                      Matching(remote, pod.Namespace, pod.Name))
                         ELSE origin
            /\ last' = [op |-> "DeletePod", pod |-> pod,
                        err |-> d.err]
            /\ UNCHANGED <<pc, arg, pd>>

GetPod ==
    \E ns \in Namespaces, name \in Names, fail \in BOOLEAN :
        LET got == RemoteGet(remote, ns, name, fail)
            g == GetPodResult(got)
        IN  /\ \E p \in Procs : pc[p] = "idle"
            /\ last' = [op |-> "GetPod", ns |-> ns, name |-> name,
                        existing |-> Existing(remote, ns, name),
                        lookupErr |-> got.err,
                        pod |-> g.pod, err |-> g.err]
            /\ UNCHANGED <<remote, origin, pc, arg, pd>>

GetPodStatus ==
    \E ns \in Namespaces, name \in Names, fail \in BOOLEAN :
        LET got == RemoteGet(remote, ns, name, fail)
            g == GetPodStatusResult(got)
        IN  /\ \E p \in Procs : pc[p] = "idle"
            /\ last' = [op |-> "GetPodStatus", ns |-> ns,
                        name |-> name,
                        existing |-> Existing(remote, ns, name),
                        lookupErr |-> got.err,
                        status |-> g.status, err |-> g.err]
            /\ UNCHANGED <<remote, origin, pc, arg, pd>>

\* GetPods: `listed` is what the remote list gave, `store` the remote pods
\* it was taken from.
GetPods ==
    \E fail \in BOOLEAN, perIteration \in BOOLEAN :
        LET list == RemoteList(remote, GetPodsSelector, fail)
            g == GetPodsResult(list, perIteration)
        IN  /\ \E p \in Procs : pc[p] = "idle"
            /\ last' = [op |-> "GetPods", listed |-> list.items,
                        listErr |-> list.err, store |-> remote,
                        ptrs |-> g.ptrs, heap |-> g.heap, err |-> g.err]
            /\ UNCHANGED <<remote, origin, pc, arg, pd>>

\* A pod some other client of the remote cluster creates: no marker.
ForeignPod(ns, name) ==
    [EmptyPod EXCEPT !.Namespace = ns, !.Name = name,
                     !.Annotations = {<<"owner", "ops">>},
                     !.Containers = <<PlainContainer>>,
                     !.RestartPolicy = "Always"]

ForeignCreate ==
    \E id \in ForeignIdentities :
        LET c == RemoteCreate(remote, id[1], ForeignPod(id[1], id[2]), FALSE)
        IN  /\ c.err = Nil
            /\ Len(remote) < MaxRemotePods
            /\ remote' = c.store
            /\ origin' = Append(origin, <<>>)
            /\ UNCHANGED <<pc, arg, pd, last>>

Next ==
    \/ \E p \in Procs : CreatePodTranslate(p)
    \/ \E p \in Procs : CreatePodCreate(p)
    \/ \E p \in Procs : UpdatePodTranslate(p)
    \/ \E p \in Procs : UpdatePodUpdate(p)
    \/ DeletePod
    \/ GetPod
    \/ GetPodStatus
    \/ GetPods
    \/ ForeignCreate

Spec == Init /\ [][Next]_vars

(* ------------------------------ claims -------------------------------- *)

\* The steps recorded in `last`, by kind.
IsTranslate == last.op = "Translate"

\* C1: the remote cluster never holds two pods of one identity, and the
\* translation step of a CreatePod made while a remote pod of the host pod's
\* identity exists returns that pod.
C1_OnePodPerIdentity ==
    /\ \A i, j \in 1..Len(remote) :
          (remote[i].Namespace = remote[j].Namespace
             /\ remote[i].Name = remote[j].Name) => i = j
    /\ (IsTranslate /\ last.caller = "CreatePod" /\ last.existing # <<>>)
          => last.rpod = last.existing[1]

\* The cluster-side half of C1 alone: no two remote pods share an identity.
IdentityUnique ==
    \A i, j \in 1..Len(remote) :
        (remote[i].Namespace = remote[j].Namespace
           /\ remote[i].Name = remote[j].Name) => i = j

\* C2: for an identity with no remote pod, GetPod returns a nil pod and an
\* error of the NotFound kind, and GetPodStatus returns a nil error and the
\* phase Unknown.
C2_MissingPod ==
    /\ (last.op = "GetPod" /\ last.existing = <<>>)
          => (last.pod = <<>> /\ last.err = ErrdefsNotFound)
    /\ (last.op = "GetPodStatus" /\ last.existing = <<>>)
          => (last.err = Nil /\ last.status = <<[Phase |-> "Unknown"]>>)

\* A status query for an identity that is absent while the remote cluster
\* holds other pods, answered without the lookup failing for another reason.
C2_Witness ==
    /\ last.op = "GetPodStatus"
    /\ last.existing = <<>>
    /\ last.lookupErr = RemoteNotFound
    /\ remote # <<>>

\* C3: when the remote list gives n pods, GetPods returns n elements, the
\* i-th being the i-th listed pod, no two of them the same pod value.
C3_IndependentElements ==
    (last.op = "GetPods" /\ last.listErr = Nil)
       => /\ last.err = Nil
          /\ Len(last.ptrs) = Len(last.listed)
          /\ \A i \in 1..Len(last.ptrs) :
                last.heap[last.ptrs[i]] = last.listed[i]
          /\ \A i, j \in 1..Len(last.ptrs) :
                last.ptrs[i] = last.ptrs[j] => i = j

\* C4: every pod GetPods returns carries the ownership marker, whatever
\* other pods the remote cluster holds.
C4_OnlyMarkedPods ==
    last.op = "GetPods"
       => \A i \in 1..Len(last.ptrs) :
             Marker \in last.heap[last.ptrs[i]].Annotations

\* GetPods returned a pod while the remote cluster held a pod without the
\* marker.
C4_Witness ==
    /\ last.op = "GetPods"
    /\ Len(last.ptrs) >= 1
    /\ \E i \in 1..Len(last.store) : Marker \notin last.store[i].Annotations

\* C5: for a host pod P with no remote pod of its identity, the translation
\* returns a pod with P's namespace and name, the marker, no volumes, P's
\* restart policy and P's containers in order, each with P's name, image,
\* command, args, resources, ports, env and working directory and nothing
\* else of P's container.
C5_TranslateAbsent ==
    (IsTranslate /\ last.existing = <<>>)
       => /\ last.err = Nil
          /\ last.rpod.Namespace = last.pod.Namespace
          /\ last.rpod.Name = last.pod.Name
          /\ Marker \in last.rpod.Annotations
          /\ last.rpod.Volumes = <<>>
          /\ last.rpod.RestartPolicy = last.pod.RestartPolicy
          /\ Len(last.rpod.Containers) = Len(last.pod.Containers)
          /\ \A i \in 1..Len(last.pod.Containers) :
                LET c == last.pod.Containers[i]
                    r == last.rpod.Containers[i]
                IN  /\ r.Name = c.Name
                    /\ r.Image = c.Image
                    /\ r.Command = c.Command
                    /\ r.Args = c.Args
                    /\ r.Resources = c.Resources
                    /\ r.Ports = c.Ports
                    /\ r.Env = c.Env
                    /\ r.WorkingDir = c.WorkingDir
                    /\ r.VolumeMounts = EmptyContainer.VolumeMounts
                    /\ r.SecurityContext = EmptyContainer.SecurityContext

\* The translation of the host pod that declares a volume, two containers
\* and container fields outside the copied eight, with no remote pod of its
\* identity.
C5_Witness ==
    /\ IsTranslate
    /\ last.existing = <<>>
    /\ last.pod = RichHostPod("default", "web")

\* C6: for a host pod whose identity matches an existing remote pod R, the
\* translation returns exactly R.
C6_TranslateExisting ==
    (IsTranslate /\ last.existing # <<>>) => last.rpod = last.existing[1]

\* C7: every remote pod the adapter created carries the marker and has the
\* namespace and name of the host pod it was created from, after any
\* CreatePod, UpdatePod and DeletePod calls.
C7_MarkerAndIdentityKept ==
    /\ Len(origin) = Len(remote)
    /\ \A i \in 1..Len(remote) :
          origin[i] # <<>>
             => /\ Marker \in remote[i].Annotations
                /\ remote[i].Namespace = origin[i][1]
                /\ remote[i].Name = origin[i][2]

\* A remote update just went through on a pod the adapter created.
C7_Witness ==
    /\ last.op = "UpdatePod"
    /\ last.remoteErr = Nil
    /\ \E i \in 1..Len(remote) :
          /\ origin[i] = <<last.ns, last.name>>
          /\ remote[i].Namespace = last.ns
          /\ remote[i].Name = last.name

\* C8: GetPod returns an error of the NotFound kind only when no remote pod
\* of the identity exists.
C8_NotFoundOnlyWhenAbsent ==
    (last.op = "GetPod" /\ last.err = ErrdefsNotFound) => last.existing = <<>>

\* C9: the translation returns the lookup's error when the lookup fails for
\* a reason other than absence, and CreatePod and UpdatePod then return it
\* without issuing the remote request; otherwise the translation returns a
\* nil error.  So a translation step that lets its call go on to the remote
\* request had a lookup that succeeded or found nothing, and a call that
\* returned without its remote request returned the lookup's error.
C9_LookupErrorReturned ==
    /\ IsTranslate
          => /\ last.lookupErr \in {Nil, RemoteNotFound}
             /\ last.err = Nil
    /\ (last.op \in {"CreatePod", "UpdatePod"} /\ ~last.issued)
          => last.err = RemoteFailure

\* C10: UpdatePod returns nil whenever the translation succeeded, whatever
\* the remote update returned; for an identity with no remote pod the remote
\* update fails, UpdatePod still returns nil, and no pod of that identity
\* exists afterwards.
C10_UpdateErrorDropped ==
    (last.op = "UpdatePod" /\ last.issued)
       => /\ last.err = Nil
          /\ ~last.existed => (last.remoteErr # Nil /\ ~last.existsAfter)

\* An UpdatePod for an identity with no remote pod, whose remote update
\* failed with NotFound.
C10_Witness ==
    /\ last.op = "UpdatePod"
    /\ last.issued
    /\ ~last.existed
    /\ last.remoteErr = RemoteNotFound
    /\ last.err = Nil

====
